---- MODULE Spec2Model ----
(***************************************************************************)
(* Model of calendar_utils.generate_ics: the conversion of a list (or a    *)
(* dict wrapping a list) of loosely typed event dictionaries into the text *)
(* of an .ics calendar file.                                               *)
(*                                                                         *)
(* Text is modelled as a sequence of one-character strings, so that        *)
(* strip(), lower(), upper(), strptime() and strftime() are computed, not  *)
(* assumed.  A line of the document is a sequence of tokens: the fixed     *)
(* text of the f-string is one token, the interpolated text follows it     *)
(* character by character.                                                 *)
(***************************************************************************)
EXTENDS Integers, Sequences, FiniteSets, TLC

(***************************************************************************)
(* Python values                                                           *)
(***************************************************************************)
\* a key that is not in the dict
Absent == [t |-> "absent"]
\* None (JSON null)
Null == [t |-> "null"]
\* a str
Text(s) == [t |-> "str", s |-> s]
\* an int
IntVal(n) == [t |-> "int", n |-> n]
\* the recurrence dict with its three keys
RecDict(f, i, c) == [t |-> "dict", frequency |-> f, interval |-> i, count |-> c]
\* the dict {}
EmptyDict == [t |-> "emptydict"]

IsText(v) == v.t = "str"

\* dict.get(key, default)
Get(v, default) == IF v = Absent THEN default ELSE v

\* truth value of a Python object
Truthy(v) ==
  CASE v.t = "str" -> v.s # <<>>
    [] v.t = "int" -> v.n # 0
    [] v.t = "dict" -> TRUE
    [] OTHER -> FALSE

\* a or b
PyOr(a, b) == IF Truthy(a) THEN a ELSE b

(***************************************************************************)
(* Characters and strings                                                  *)
(***************************************************************************)
LowerLetters ==
  <<"a","b","c","d","e","f","g","h","i","j","k","l","m",
    "n","o","p","q","r","s","t","u","v","w","x","y","z">>
UpperLetters ==
  <<"A","B","C","D","E","F","G","H","I","J","K","L","M",
    "N","O","P","Q","R","S","T","U","V","W","X","Y","Z">>
DigitChars == <<"0","1","2","3","4","5","6","7","8","9">>

IsDigit(c) == \E k \in 1..10 : DigitChars[k] = c
DigitVal(c) == (CHOOSE k \in 1..10 : DigitChars[k] = c) - 1
\* \s of the regular expression, and the characters strip() removes
IsSpace(c) == c = " "

LowerCh(c) ==
  IF \E k \in 1..26 : UpperLetters[k] = c
  THEN LowerLetters[CHOOSE k \in 1..26 : UpperLetters[k] = c]
  ELSE c
UpperCh(c) ==
  IF \E k \in 1..26 : LowerLetters[k] = c
  THEN UpperLetters[CHOOSE k \in 1..26 : LowerLetters[k] = c]
  ELSE c

\* str.lower()
Lower(s) == [k \in 1..Len(s) |-> LowerCh(s[k])]
\* str.upper()
Upper(s) == [k \in 1..Len(s) |-> UpperCh(s[k])]

\* str.strip()
Strip(s) ==
  LET keep == {k \in 1..Len(s) : ~IsSpace(s[k])}
  IN IF keep = {} THEN <<>>
     ELSE LET lo == CHOOSE k \in keep : \A j \in keep : k <= j
              hi == CHOOSE k \in keep : \A j \in keep : k >= j
          IN SubSeq(s, lo, hi)

RECURSIVE NatDigits(_)
\* decimal digits of a natural number
NatDigits(n) ==
  IF n < 10 THEN <<DigitChars[n + 1]>>
  ELSE NatDigits(n \div 10) \o <<DigitChars[(n % 10) + 1]>>

\* str(v) and the f-string interpolation {v}
Str(v) ==
  CASE v.t = "str" -> v.s
    [] v.t = "null" -> <<"N","o","n","e">>
    [] v.t = "int" -> IF v.n < 0 THEN <<"-">> \o NatDigits(-v.n) ELSE NatDigits(v.n)
    [] OTHER -> <<"{","}">>

None4 == <<"n","o","n","e">>

(***************************************************************************)
(* datetime: strptime, date arithmetic, strftime                           *)
(***************************************************************************)
\* datetime.MAXYEAR
MAXYEAR == 9999

IsLeap(y) == (y % 4 = 0) /\ ((y % 100 # 0) \/ (y % 400 = 0))

DaysInMonth(y, m) ==
  CASE m \in {4, 6, 9, 11} -> 30
    [] m = 2 -> IF IsLeap(y) THEN 29 ELSE 28
    [] OTHER -> 31

NoMatch == [ok |-> FALSE, v |-> 0, n |-> 0]
Match(v, n) == [ok |-> TRUE, v |-> v, n |-> n]

\* s[p] when it exists, else a character that matches nothing
At(s, p) == IF p >= 1 /\ p <= Len(s) THEN s[p] ELSE "$"

\* (?P<Y>\d\d\d\d) at position p
MatchY(s, p) ==
  IF \A k \in 0..3 : IsDigit(At(s, p + k))
  THEN Match(1000 * DigitVal(s[p]) + 100 * DigitVal(s[p + 1])
             + 10 * DigitVal(s[p + 2]) + DigitVal(s[p + 3]), 4)
  ELSE NoMatch

\* the value of the two digits at p, p+1, or -1
Two(s, p) ==
  IF IsDigit(At(s, p)) /\ IsDigit(At(s, p + 1))
  THEN 10 * DigitVal(s[p]) + DigitVal(s[p + 1])
  ELSE -1
\* the value of the digit at p, or -1
One(s, p) == IF IsDigit(At(s, p)) THEN DigitVal(s[p]) ELSE -1

\* (?P<m>1[0-2]|0[1-9]|[1-9]), given the two digits and the one digit at p
MonthFrom(two, one) ==
  CASE two \in 10..12 -> Match(two, 2)
    [] two \in 1..9 -> Match(two, 2)
    [] one \in 1..9 -> Match(one, 1)
    [] OTHER -> NoMatch
MatchMonth(s, p) == MonthFrom(Two(s, p), One(s, p))

\* (?P<d>3[0-1]|[1-2]\d|0[1-9]|[1-9]| [1-9]), given the two digits and the
\* one digit at p, the character at p and the digit after it
DayFrom(two, one, ch, next) ==
  CASE two \in 30..31 -> Match(two, 2)
    [] two \in 10..29 -> Match(two, 2)
    [] two \in 1..9 -> Match(two, 2)
    [] one \in 1..9 -> Match(one, 1)
    [] ch = " " /\ next \in 1..9 -> Match(next, 2)
    [] OTHER -> NoMatch
MatchDay(s, p) == DayFrom(Two(s, p), One(s, p), At(s, p), One(s, p + 1))

\* (?P<H>2[0-3]|[0-1]\d|\d)
HourFrom(two, one) ==
  CASE two \in 20..23 -> Match(two, 2)
    [] two \in 0..19 -> Match(two, 2)
    [] one \in 0..9 -> Match(one, 1)
    [] OTHER -> NoMatch
MatchHour(s, p) == HourFrom(Two(s, p), One(s, p))

\* (?P<M>[0-5]\d|\d)
MinuteFrom(two, one) ==
  CASE two \in 0..59 -> Match(two, 2)
    [] one \in 0..9 -> Match(one, 1)
    [] OTHER -> NoMatch
MatchMinute(s, p) == MinuteFrom(Two(s, p), One(s, p))

\* the first position from p on that holds no white space
SpaceEnd(s, stop) == CHOOSE k \in stop : \A j \in stop : k <= j
\* \s+ at position p: the number of characters it takes (0: no match)
SpaceRun(s, p) ==
  SpaceEnd(s, {k \in p..(Len(s) + 1) : ~IsSpace(At(s, k))}) - p

ParseError == [ok |-> FALSE, y |-> 0, m |-> 0, d |-> 0, H |-> 0, M |-> 0, n |-> 0]

\* the match of "%Y-%m-%d" from the matches of its three fields
YMDWith(s, y, m, d) ==
  IF y.ok /\ At(s, 5) = "-" /\ m.ok /\ At(s, 6 + m.n) = "-" /\ d.ok
  THEN [ok |-> TRUE, y |-> y.v, m |-> m.v, d |-> d.v, H |-> 0, M |-> 0,
        n |-> 6 + m.n + d.n]
  ELSE ParseError
YMDFrom(s, y, m) == YMDWith(s, y, m, MatchDay(s, 7 + m.n))
\* the match of "%Y-%m-%d" at the start of s: the fields and the length taken
MatchYMD(s) == YMDFrom(s, MatchY(s, 1), MatchMonth(s, 6))

\* the checks of the datetime constructor on the parsed fields
ValidYMD(r) == r.y >= 1 /\ r.d <= DaysInMonth(r.y, r.m)

\* the whole string matched and the fields make a date
DateFrom(s, r) == IF r.ok /\ r.n = Len(s) /\ ValidYMD(r) THEN r ELSE ParseError
\* datetime.datetime.strptime(s, "%Y-%m-%d").date(); ok = FALSE is ValueError
ParseDate(s) == DateFrom(s, MatchYMD(s))

\* the match of "%Y-%m-%d %H:%M" from the matches of its parts: the date r,
\* the white space of length w, the hour h, the minute mi
DateTimeWith(s, r, w, h, mi) ==
  IF r.ok /\ w >= 1 /\ h.ok /\ At(s, r.n + w + h.n + 1) = ":" /\ mi.ok
     /\ r.n + w + h.n + 1 + mi.n = Len(s) /\ ValidYMD(r)
  THEN [r EXCEPT !.H = h.v, !.M = mi.v, !.n = Len(s)]
  ELSE ParseError
DateTimeFromHour(s, r, w, h) ==
  DateTimeWith(s, r, w, h, MatchMinute(s, r.n + w + h.n + 2))
DateTimeFromSpace(s, r, w) ==
  DateTimeFromHour(s, r, w, MatchHour(s, r.n + w + 1))
DateTimeFrom(s, r) == DateTimeFromSpace(s, r, SpaceRun(s, r.n + 1))
\* datetime.datetime.strptime(s, "%Y-%m-%d %H:%M"); ok = FALSE is ValueError
ParseDateTime(s) == DateTimeFrom(s, MatchYMD(s))

\* date + timedelta(days=1) overflows (OverflowError)
IsMaxDate(r) == r.y = MAXYEAR /\ r.m = 12 /\ r.d = 31

\* date + datetime.timedelta(days=1), for a date that is not date.max
AddOneDay(r) ==
  IF r.d < DaysInMonth(r.y, r.m) THEN [r EXCEPT !.d = r.d + 1]
  ELSE IF r.m < 12 THEN [r EXCEPT !.m = r.m + 1, !.d = 1]
  ELSE [r EXCEPT !.y = r.y + 1, !.m = 1, !.d = 1]

Pad2(n) == <<DigitChars[(n \div 10) + 1], DigitChars[(n % 10) + 1]>>
Pad4(n) == Pad2(n \div 100) \o Pad2(n % 100)

\* strftime('%Y%m%d')
FormatDate(r) == Pad4(r.y) \o Pad2(r.m) \o Pad2(r.d)
\* strftime('%Y%m%dT%H%M%S') of a datetime parsed with seconds = 0
FormatDateTime(r) == FormatDate(r) \o <<"T">> \o Pad2(r.H) \o Pad2(r.M) \o Pad2(0)

(***************************************************************************)
(* Collaborators: the timezone database and the host's local zone          *)
(***************************************************************************)
UTC == <<"U","T","C">>
Tokyo == <<"A","s","i","a","/","T","o","k","y","o">>
Rome == <<"E","u","r","o","p","e","/","R","o","m","e">>

\* the identifiers pytz knows (a part of pytz.all_timezones)
TzDatabase == {UTC, Tokyo, Rome}

\* variant: every identifier is taken for a known zone
Resolvable_any(zone) == zone = zone

\* pytz.timezone(zone) returns (the lookup ignores letter case); FALSE is
\* UnknownTimeZoneError
Resolvable(zone) == \E z \in TzDatabase : Lower(z) = Lower(zone)

(***************************************************************************)
(* generate_ics, per event                                                 *)
(***************************************************************************)
UnnamedEvent == <<"U","n","n","a","m","e","d"," ","E","v","e","n","t">>

\* summary = event.get("summary", "Unnamed Event")
Summary(event) == Get(event.summary, Text(UnnamedEvent))

\* start_date = event.get("start_date", "none")
StartDate(event) == Get(event.start_date, Text(None4))

\* event.get("end_date") or start_date, before .strip()
EndDateOperand(event) == PyOr(Get(event.end_date, Null), StartDate(event))

\* (event.get(key) or "").strip() for start_time and end_time
TimeField(v) == Strip(Str(PyOr(Get(v, Null), Text(<<>>))))

\* variant: the comparison with "none" keeps the letter case
IsMissingStartDate_cs(start_date) == Str(start_date) = None4

\* str(start_date).lower() == "none"
IsMissingStartDate(start_date) == Lower(Str(start_date)) = None4

\* variant: UTC instead of the local zone
EffectiveTimezone_utc(timezone, local) ==
  IF Lower(Str(timezone)) = None4 THEN UTC ELSE Str(timezone)

\* timezone after "if str(timezone).lower() == 'none': timezone = local_timezone.key"
EffectiveTimezone(timezone, local) ==
  IF Lower(Str(timezone)) = None4 THEN local ELSE Str(timezone)

\* variant: end_time is left empty
EndTimeDefault_none(start_time, end_time) == end_time

\* if not end_time: end_time = start_time
EndTimeDefault(start_time, end_time) ==
  IF end_time = <<>> THEN start_time ELSE end_time

Failed(kind) == [kind |-> kind, start |-> ParseError, end |-> ParseError]

\* the all-day branch, from the parsed start_date and end_date
AllDayFrom(s, e) ==
  IF ~s.ok THEN Failed("ValueError")
  ELSE IF ~e.ok THEN Failed("ValueError")
  ELSE IF IsMaxDate(e) THEN Failed("OverflowError")
  ELSE [kind |-> "allday", start |-> s, end |-> AddOneDay(e)]

\* the all-day branch of the try block
ResolveAllDay(start_date, end_date) ==
  AllDayFrom(ParseDate(start_date), ParseDate(end_date))

\* the timed branch, from the parsed start and end.  tz.localize keeps the
\* wall-clock fields; for a zone with transitions it adds a day to the naive
\* datetime first, which overflows on the last day of MAXYEAR (ovf: the zone
\* is of that kind)
TimedFrom(s, e, ovf) ==
  IF ~s.ok THEN Failed("ValueError")
  ELSE IF IsMaxDate(s) /\ ovf THEN Failed("OverflowError")
  ELSE IF ~e.ok THEN Failed("ValueError")
  ELSE IF IsMaxDate(e) /\ ovf THEN Failed("OverflowError")
  ELSE [kind |-> "timed", start |-> s, end |-> e]

\* the timed branch of the try block
ResolveTimed(start_date, end_date, start_time, end_time, ovf) ==
  TimedFrom(ParseDateTime(start_date \o <<" ">> \o start_time),
            ParseDateTime(end_date \o <<" ">>
                          \o EndTimeDefault(start_time, end_time)),
            ovf)

\* variant: the ValueError of strptime is not caught
Resolve_uncaught(start_date, end_date, start_time, end_time, ovf) ==
  LET r == IF start_time = <<>>
           THEN ResolveAllDay(start_date, end_date)
           ELSE ResolveTimed(start_date, end_date, start_time, end_time, ovf)
  IN IF r.kind = "ValueError" THEN Failed("UncaughtValueError") ELSE r

\* the try block: if start_time == "" ... else ...
Resolve(start_date, end_date, start_time, end_time, ovf) ==
  IF start_time = <<>>
  THEN ResolveAllDay(start_date, end_date)
  ELSE ResolveTimed(start_date, end_date, start_time, end_time, ovf)

\* the DTSTART and DTEND lines of the all-day block
AllDayLines(r) ==
  << <<"DTSTART;VALUE=DATE:">> \o FormatDate(r.start),
     <<"DTEND;VALUE=DATE:">> \o FormatDate(r.end) >>

\* the DTSTART and DTEND lines of the timed block
TimedLines(r, timezone) ==
  << <<"DTSTART;TZID=">> \o timezone \o <<":">> \o FormatDateTime(r.start),
     <<"DTEND;TZID=">> \o timezone \o <<":">> \o FormatDateTime(r.end) >>

\* ics_event before the recurrence part
ComposeBlock(summary, r, timezone, location, description) ==
  << <<"BEGIN:VEVENT">>, <<"SUMMARY:">> \o Str(summary) >>
  \o (IF r.kind = "allday" THEN AllDayLines(r) ELSE TimedLines(r, timezone))
  \o << <<"LOCATION:">> \o Str(location), <<"DESCRIPTION:">> \o Str(description) >>

RecognizedFrequencies ==
  { <<"D","A","I","L","Y">>, <<"W","E","E","K","L","Y">>,
    <<"M","O","N","T","H","L","Y">> }

\* the RRULE line built from a recurrence dict
RRuleLine(recurrence) ==
  LET freq == Upper(Str(Get(recurrence.frequency, Text(None4))))
      interval == Get(recurrence.interval, IntVal(1))
      count == Get(recurrence.count, Null)
  IN IF freq \in RecognizedFrequencies
     THEN << <<"RRULE:FREQ=">> \o freq \o <<";INTERVAL=">> \o Str(interval)
             \o (IF Truthy(count) THEN <<";COUNT=">> \o Str(count) ELSE <<>>) >>
     ELSE <<>>

\* "if recurrence:" with a value that has no .get (AttributeError)
RecurrenceRaises(recurrence) == Truthy(recurrence) /\ recurrence.t # "dict"

\* the lines the recurrence part adds to ics_event
RecurrenceLines(recurrence) ==
  IF Truthy(recurrence) THEN RRuleLine(recurrence) ELSE <<>>

Skip(msg) == [kind |-> "skip", lines |-> <<>>, msg |-> msg, exc |-> "none"]
Raise(exc) == [kind |-> "raise", lines |-> <<>>, msg |-> <<>>, exc |-> exc]
Emit(lines) == [kind |-> "emit", lines |-> lines, msg |-> <<>>, exc |-> "none"]

MissingStartMsg(summary) ==
  <<"Skipping event '">> \o Str(summary) \o <<"' due to missing start date.">>
InvalidDateMsg(summary) ==
  <<"Skipping event '">> \o Str(summary) \o <<"' due to invalid date format: ">>

\* lines 98-134: what follows the try block, r being its result
AfterResolve(summary, r, timezone, location, description, recurrence) ==
  CASE r.kind = "ValueError" -> Skip(InvalidDateMsg(summary))
    [] r.kind \in {"allday", "timed"} ->
         IF RecurrenceRaises(recurrence) THEN Raise("AttributeError")
         ELSE Emit(ComposeBlock(summary, r, timezone, location, description)
                   \o RecurrenceLines(recurrence)
                   \o << <<"END:VEVENT">> >>)
    [] OTHER -> Raise(r.kind)

\* lines 77-134: the try block, the VEVENT block and the recurrence part, for
\* an event that has a start_date and a resolvable timezone
AfterTimezone(summary, start_date, end_date, start_time, end_time, timezone, location, description, recurrence, ovf) ==
  AfterResolve(summary,
               Resolve(start_date, end_date, start_time, end_time, ovf),
               timezone, location, description, recurrence)

\* variant: the timezone is resolved before the start_date is looked at
EventResult_tzfirst(event, local, ovf) ==
  LET summary == Summary(event)
      start_date == StartDate(event)
      end_operand == EndDateOperand(event)
      start_time == TimeField(event.start_time)
      end_time == TimeField(event.end_time)
      timezone == Get(event.timezone, Text(None4))
      location == Get(event.location, Text(<<>>))
      description == Get(event.description, Text(<<>>))
      recurrence == Get(event.recurrence, Null)
  IN IF ~IsText(end_operand) THEN Raise("AttributeError")
     ELSE IF ~Resolvable(EffectiveTimezone(timezone, local))
     THEN Raise("UnknownTimeZoneError")
     ELSE IF IsMissingStartDate(start_date) THEN Skip(MissingStartMsg(summary))
     ELSE AfterTimezone(summary, Str(start_date), Strip(end_operand.s),
                        start_time, end_time,
                        EffectiveTimezone(timezone, local),
                        location, description, recurrence, ovf)

\* one iteration of "for event in events": what it does to the document
EventResult(event, local, ovf) ==
  LET summary == Summary(event)
      start_date == StartDate(event)
      end_operand == EndDateOperand(event)
      start_time == TimeField(event.start_time)
      end_time == TimeField(event.end_time)
      timezone == Get(event.timezone, Text(None4))
      location == Get(event.location, Text(<<>>))
      description == Get(event.description, Text(<<>>))
      recurrence == Get(event.recurrence, Null)
  IN IF ~IsText(end_operand) THEN Raise("AttributeError")
     ELSE IF IsMissingStartDate(start_date) THEN Skip(MissingStartMsg(summary))
     ELSE IF ~Resolvable(EffectiveTimezone(timezone, local))
     THEN Raise("UnknownTimeZoneError")
     ELSE AfterTimezone(summary, Str(start_date), Strip(end_operand.s),
                        start_time, end_time,
                        EffectiveTimezone(timezone, local),
                        location, description, recurrence, ovf)

\* variant: a block that is already in the document is not added again
AppendBlock_dedup(content, lines) ==
  IF \E k \in 1..Len(content) :
       k + Len(lines) - 1 <= Len(content)
       /\ SubSeq(content, k, k + Len(lines) - 1) = lines
  THEN content ELSE content \o lines

\* ics_content += ics_event
AppendBlock(content, lines) == content \o lines

(***************************************************************************)
(* Inputs: the values the fields of an event dictionary are drawn from      *)
(***************************************************************************)
D20250310 == <<"2","0","2","5","-","0","3","-","1","0">>
D20251231 == <<"2","0","2","5","-","1","2","-","3","1">>
D99991231 == <<"9","9","9","9","-","1","2","-","3","1">>
D20250230 == <<"2","0","2","5","-","0","2","-","3","0">>
D202531 == <<"2","0","2","5","-","3","-","1">>
D20250312sp == <<" ","2","0","2","5","-","0","3","-","1","2"," ">>
D20240228 == <<"2","0","2","4","-","0","2","-","2","8">>
D20250228 == <<"2","0","2","5","-","0","2","-","2","8">>
D20251301 == <<"2","0","2","5","-","1","3","-","0","1">>
T1000 == <<"1","0",":","0","0">>
T2400 == <<"2","4",":","0","0">>
T95sp == <<" ","9",":","5"," ">>
T1130 == <<"1","1",":","3","0">>
T1130nc == <<"1","1","3","0">>
NoneUpper == <<"N","O","N","E">>
NoneMixed == <<"N","o","N","e">>
UtcLower == <<"u","t","c">>
Mars == <<"M","a","r","s","/","P","h","o","b","o","s">>
Daily == <<"d","a","i","l","y">>
WeeklyMixed == <<"W","e","e","k","l","y">>
MonthlyUpper == <<"M","O","N","T","H","L","Y">>
Yearly == <<"y","e","a","r","l","y">>

Event(summary, start_date, end_date, start_time, end_time, timezone, location, description, recurrence) ==
  [summary |-> summary, start_date |-> start_date, end_date |-> end_date,
   start_time |-> start_time, end_time |-> end_time, timezone |-> timezone,
   location |-> location, description |-> description,
   recurrence |-> recurrence]

SummaryValues == {Absent, Null, Text(<<>>), Text(<<"A">>)}
StartDateValues ==
  {Absent, Null, Text(None4), Text(NoneMixed), Text(<<>>), Text(D20250310),
   Text(D20251231), Text(D99991231), Text(D20250230), Text(D202531)}
EndDateValues ==
  {Absent, Null, Text(<<>>), Text(D20250312sp), Text(D20240228),
   Text(D20250228), Text(D99991231), Text(D20251301)}
StartTimeValues == {Absent, Null, Text(<<" ">>), Text(T1000), Text(T2400)}
EndTimeValues == {Absent, Text(<<>>), Text(T1130), Text(T1130nc)}
TimezoneValues ==
  {Absent, Null, Text(None4), Text(NoneUpper), Text(Tokyo), Text(UtcLower),
   Text(Mars)}
FrequencyValues ==
  {Absent, Text(Daily), Text(WeeklyMixed), Text(MonthlyUpper), Text(Yearly)}
IntervalValues == {Absent, IntVal(0), IntVal(1), IntVal(2)}
CountValues == {Absent, Null, IntVal(0), IntVal(1), IntVal(5)}
RecurrenceValues ==
  {Absent, Null, EmptyDict, Text(Daily)}
  \cup {RecDict(f, i, c) : f \in FrequencyValues, i \in IntervalValues,
                           c \in CountValues}

\* events without a time of day: every start_date and end_date
AllDayEvents ==
  {Event(Text(<<"A">>), sd, ed, st, et, tz, Absent, Absent, Absent) :
     sd \in StartDateValues, ed \in EndDateValues,
     st \in {Absent, Null, Text(<<>>), Text(<<" ">>)},
     et \in {Absent, Text(T1130nc)},
     tz \in {Absent, Text(NoneUpper), Text(Tokyo), Text(Mars)}}

\* events with a time of day: every end_time and timezone
TimedEvents ==
  {Event(Text(<<"A">>), sd, ed, st, et, tz, Absent, Absent, Absent) :
     sd \in {Absent, Text(None4), Text(D20250310), Text(D99991231),
             Text(D20250230), Text(D202531)},
     ed \in {Absent, Text(<<>>), Text(D20250312sp), Text(D99991231),
             Text(D20251301)},
     st \in {Text(T1000), Text(T2400), Text(T95sp)},
     et \in EndTimeValues, tz \in TimezoneValues}

\* events that vary the summary
SummaryEvents ==
  {Event(su, sd, Absent, st, Absent, Absent, Text(<<"R","m">>), Absent, Absent) :
     su \in SummaryValues, sd \in StartDateValues, st \in StartTimeValues}

\* events that vary the recurrence
RecurrenceEvents ==
  {Event(Text(<<"A">>), sd, Absent, st, Absent, Text(Tokyo), Absent,
         Text(<<"d">>), rec) :
     sd \in {Text(D20250310), Text(None4), Text(D20250230)},
     st \in {Absent, Text(T1000)}, rec \in RecurrenceValues}

SingleEvents ==
  AllDayEvents \cup TimedEvents \cup SummaryEvents \cup RecurrenceEvents

\* the events batches are made of: two that are emitted, two that are
\* skipped, two that stop the run
BatchEvents ==
  { Event(Text(<<"A">>), Text(D20250310), Absent, Absent, Absent, Absent,
          Absent, Absent, Absent),
    Event(Text(<<"B">>), Text(D20250310), Text(D20250312sp), Text(T1000),
          Text(T1130), Text(Tokyo), Text(<<"R","m">>), Text(<<"d">>),
          RecDict(Text(Daily), IntVal(2), IntVal(5))),
    Event(Text(<<"C">>), Text(None4), Absent, Absent, Absent, Text(Mars),
          Absent, Absent, Absent),
    Event(Absent, Text(D20250230), Absent, Text(T1000), Absent, Absent,
          Absent, Absent, Absent),
    Event(Text(<<"E">>), Text(D20250310), Absent, Absent, Absent, Text(Mars),
          Absent, Absent, Absent),
    Event(Text(<<>>), Text(D20251231), Absent, Text(T2400), Absent,
          Text(Mars), Absent, Absent, Absent) }

\* the longest batch
MaxEvents == 3

RECURSIVE SeqsUpTo(_, _)
\* the sequences over S of length at most n
SeqsUpTo(S, n) ==
  IF n = 0 THEN {<<>>}
  ELSE LET shorter == SeqsUpTo(S, n - 1)
       IN shorter \cup {Append(q, x) : q \in {r \in shorter : Len(r) = n - 1}, x \in S}

\* the events argument: a list
ListArg(items) ==
  [kind |-> "list", has_events |-> FALSE, holds_list |-> FALSE, items |-> items]
\* a dict with an "events" key holding a list
WrappedArg(items) ==
  [kind |-> "dict", has_events |-> TRUE, holds_list |-> TRUE, items |-> items]
\* a dict with an "events" key holding something that is not a list
WrappedOtherArg ==
  [kind |-> "dict", has_events |-> TRUE, holds_list |-> FALSE, items |-> <<>>]
\* a dict without an "events" key
DictArg ==
  [kind |-> "dict", has_events |-> FALSE, holds_list |-> FALSE, items |-> <<>>]
\* None, a str, a number
OtherArg ==
  [kind |-> "other", has_events |-> FALSE, holds_list |-> FALSE, items |-> <<>>]

BatchArgs ==
  {ListArg(q) : q \in SeqsUpTo(BatchEvents, MaxEvents)}
  \cup {WrappedArg(q) : q \in SeqsUpTo(BatchEvents, MaxEvents)}
  \cup {WrappedOtherArg, DictArg, OtherArg}

SingleArgs == {ListArg(<<e>>) : e \in SingleEvents}

\* the zones tzlocal may report
LocalZones == {Rome, UTC}

\* the destination before the call: no file, or a file with other content
NoFile == << <<"(no file)">> >>
OldFile == << <<"(old content)">> >>

(***************************************************************************)
(* generate_ics                                                            *)
(***************************************************************************)
VARIABLES
  arg,             \* the events argument of generate_ics
  local_timezone,  \* get_localzone().key
  file,            \* the content of the file named by filename
  pc,              \* "start", "loop", "done" or "raised"
  exc,             \* the exception that left generate_ics, or "none"
  events,          \* the list iterated over
  idx,             \* the position of the for loop in events
  ics_content,     \* the document built so far, a sequence of lines
  stdout           \* the lines printed

vars == <<arg, local_timezone, file, pc, exc, events, idx, ics_content, stdout>>

Header ==
  << <<"BEGIN:VCALENDAR">>, <<"VERSION:2.0">>,
     <<"PRODID:-//Custom Calendar//NONSGML v1.0//EN">>,
     <<"CALSCALE:GREGORIAN">> >>

Footer == << <<"END:VCALENDAR">> >>

Init ==
  /\ \/ arg \in BatchArgs /\ file \in {NoFile, OldFile}
     \/ arg \in SingleArgs /\ file = NoFile
  /\ local_timezone \in LocalZones
  /\ pc = "start"
  /\ exc = "none"
  /\ events = <<>>
  /\ idx = 0
  /\ ics_content = <<>>
  /\ stdout = <<>>

\* the list generate_ics iterates over, after unwrapping {"events": [...]}
Unwrapped(a) ==
  IF a.kind = "dict" /\ a.has_events
  THEN (IF a.holds_list THEN ListArg(a.items) ELSE OtherArg)
  ELSE a

\* lines 34-48: accept a list or a dict with an "events" key, start the document
CheckInput ==
  /\ pc = "start"
  /\ IF Unwrapped(arg).kind # "list"
     THEN /\ pc' = "raised"
          /\ exc' = "TypeError"
          /\ UNCHANGED <<events, idx, ics_content>>
     ELSE /\ pc' = "loop"
          /\ events' = Unwrapped(arg).items
          /\ idx' = 1
          /\ ics_content' = Header
          /\ UNCHANGED exc
  /\ UNCHANGED <<arg, local_timezone, file, stdout>>

\* the effect of one iteration with result r on the state of the call
Continue(r) ==
  CASE r.kind = "raise" ->
         /\ pc' = "raised"
         /\ exc' = r.exc
         /\ UNCHANGED <<idx, ics_content, stdout>>
    [] r.kind = "skip" ->
         /\ stdout' = Append(stdout, r.msg)
         /\ idx' = idx + 1
         /\ UNCHANGED <<pc, exc, ics_content>>
    [] OTHER ->
         /\ ics_content' = AppendBlock(ics_content, r.lines)
         /\ idx' = idx + 1
         /\ UNCHANGED <<pc, exc, stdout>>

\* lines 50-135: one iteration of the for loop
ProcessEvent ==
  /\ pc = "loop"
  /\ idx <= Len(events)
  /\ \E ovf \in BOOLEAN :
       Continue(EventResult(events[idx], local_timezone, ovf))
  /\ UNCHANGED <<arg, local_timezone, file, events>>

\* lines 138-143: close the document and write the file
WriteFile ==
  /\ pc = "loop"
  /\ idx > Len(events)
  /\ ics_content' = ics_content \o Footer
  /\ file' = ics_content'
  /\ stdout' = Append(stdout, <<"ICS file saved as ">>)
  /\ pc' = "done"
  /\ UNCHANGED <<arg, local_timezone, exc, events, idx>>

Next == CheckInput \/ ProcessEvent \/ WriteFile

Spec == Init /\ [][Next]_vars

(***************************************************************************)
(* Vocabulary of the properties.  The cases are named by the input values  *)
(* themselves, not by the operators of generate_ics.                       *)
(***************************************************************************)
\* start_date is absent or the sentinel "none" in some letter case
SentinelStart(e) == e.start_date \in {Absent, Text(None4), Text(NoneMixed)}
\* start_date is a text other than the sentinel
TextStart(e) == IsText(e.start_date) /\ ~SentinelStart(e)
\* start_time is absent, null, empty or whitespace-only
EmptyStartTime(e) == e.start_time \in {Absent, Null, Text(<<>>), Text(<<" ">>)}
\* end_time is absent or empty
EmptyEndTime(e) == e.end_time \in {Absent, Null, Text(<<>>)}
\* the timezone field names no zone of the database
BadZone(e) == e.timezone = Text(Mars)
\* the timezone field is absent (or null) or the sentinel "none"
NoZone(e) == e.timezone \in {Absent, Null, Text(None4), Text(NoneUpper)}
\* the recurrence field is a value without keys
NonDictRecurrence(e) == IsText(e.recurrence) /\ e.recurrence.s # <<>>

\* the end date text in force: end_date, or start_date when absent or empty
EndDateText(e) ==
  IF e.end_date \in {Absent, Null, Text(<<>>)}
  THEN Strip(e.start_date.s) ELSE Strip(e.end_date.s)
\* the start time text
StartTimeText(e) == Strip(e.start_time.s)
\* the end time text in force: end_time, or start_time when absent or empty
EndTimeText(e) ==
  IF EmptyEndTime(e) THEN StartTimeText(e) ELSE Strip(e.end_time.s)

\* the parsed start and end of an event with a text start_date
StartOf(e) ==
  IF EmptyStartTime(e) THEN ParseDate(e.start_date.s)
  ELSE ParseDateTime(e.start_date.s \o <<" ">> \o StartTimeText(e))
EndOf(e) ==
  IF EmptyStartTime(e) THEN ParseDate(EndDateText(e))
  ELSE ParseDateTime(EndDateText(e) \o <<" ">> \o EndTimeText(e))

\* the event passes validation: a start_date that is not the sentinel, and
\* dates and times that parse
Passes(e) == TextStart(e) /\ StartOf(e).ok /\ EndOf(e).ok

\* the for loop is about to process events[idx]
Processing == pc = "loop" /\ idx <= Len(events)
\* the step skipped the event: nothing added, the loop goes on
StepSkipped == pc' = "loop" /\ idx' = idx + 1 /\ ics_content' = ics_content
\* the step added a block and the loop goes on
StepEmitted ==
  /\ pc' = "loop" /\ idx' = idx + 1
  /\ Len(ics_content') > Len(ics_content)
  /\ SubSeq(ics_content', 1, Len(ics_content)) = ics_content
\* the lines the step added
NewBlock == SubSeq(ics_content', Len(ics_content) + 1, Len(ics_content'))

\* the positions of the BEGIN:VEVENT lines of a document
BeginAt(doc) == {k \in 1..Len(doc) : doc[k] = <<"BEGIN:VEVENT">>}
EndAt(doc) == {k \in 1..Len(doc) : doc[k] = <<"END:VEVENT">>}
\* the n-th smallest element of a set of numbers
Nth(S, n) == CHOOSE k \in S : Cardinality({j \in S : j < k}) = n - 1
\* the last n elements of a line
LastN(line, n) == SubSeq(line, Len(line) - n + 1, Len(line))

\* the positions of the processed events that pass validation
PassedAt == {k \in 1..(idx - 1) : Passes(events[k])}

(***************************************************************************)
(* C1  Skip-and-continue with order preservation: the document holds       *)
(* exactly one VEVENT block per processed descriptor that passes           *)
(* validation and none for the others, in the order of the input, without  *)
(* deduplication.                                                          *)
(***************************************************************************)
C1_OrderPreserved ==
  pc \in {"loop", "done"} =>
    /\ Cardinality(BeginAt(ics_content)) = Cardinality(PassedAt)
    /\ Cardinality(EndAt(ics_content)) = Cardinality(PassedAt)
    /\ \A n \in 1..Cardinality(PassedAt) :
         LET e == events[Nth(PassedAt, n)]
             b == Nth(BeginAt(ics_content), n)
         IN /\ Nth(EndAt(ics_content), n) > b
            /\ n > 1 => Nth(EndAt(ics_content), n - 1) < b
            /\ IsText(e.summary) => ics_content[b + 1] = <<"SUMMARY:">> \o e.summary.s
            /\ EmptyStartTime(e) =>
                 LastN(ics_content[b + 2], 8) = FormatDate(StartOf(e))

\* a batch A, B, C where B fails parsing, written with two blocks
C1_Witness ==
  /\ pc = "done" /\ Len(events) = 3
  /\ Passes(events[1]) /\ Passes(events[3]) /\ events[1] # events[3]
  /\ TextStart(events[2]) /\ ~Passes(events[2])
  /\ Cardinality(BeginAt(file)) = 2

(***************************************************************************)
(* C2 as stated: a list with a descriptor that is malformed in any way     *)
(* (start_date, end_date, times, timezone, recurrence) is still run to     *)
(* completion, with the blocks of all the well-formed descriptors.         *)
(***************************************************************************)
C2_Malformed(e) ==
  \/ ~Passes(e)
  \/ BadZone(e)
  \/ e.recurrence \notin {Absent, Null}
     /\ (e.recurrence.t # "dict" \/ RRuleLine(e.recurrence) = <<>>)

C2_Skippable(e) ==
  \/ SentinelStart(e)
  \/ /\ TextStart(e) /\ ~BadZone(e) /\ ~Passes(e)
     /\ ~(~EmptyStartTime(e) /\ StartOf(e).ok /\ IsMaxDate(StartOf(e)))

C3_WellFormed(doc) ==
  /\ Len(doc) >= 5
  /\ doc[1] = <<"BEGIN:VCALENDAR">>
  /\ doc[2] = <<"VERSION:2.0">>
  /\ doc[3] = <<"PRODID:-//Custom Calendar//NONSGML v1.0//EN">>
  /\ doc[Len(doc)] = <<"END:VCALENDAR">>
  /\ \A k \in 1..(Len(doc) - 1) : doc[k] # <<"END:VCALENDAR">>

C3_SentinelSkipped ==
  /\ [][Processing /\ SentinelStart(events[idx]) => StepSkipped]_vars
  /\ [](pc = "done" => C3_WellFormed(file) /\ file = ics_content)

\* a batch of sentinel descriptors only, one of them with a bad timezone,
\* written as header and footer
C3_Witness ==
  /\ pc = "done" /\ Len(events) >= 1
  /\ \A k \in 1..Len(events) : SentinelStart(events[k])
  /\ \E k \in 1..Len(events) : BadZone(events[k])
  /\ file = Header \o Footer

\* the event reaches the VEVENT block: it passes validation, its zone
\* resolves, no date is the last day of MAXYEAR, its recurrence has keys
Renders(e) ==
  /\ Passes(e) /\ ~BadZone(e) /\ ~NonDictRecurrence(e)
  /\ ~IsMaxDate(StartOf(e)) /\ ~IsMaxDate(EndOf(e))

(***************************************************************************)
(* C4  A descriptor with an empty start_time and a valid start_date (and   *)
(* end date) is emitted as an all-day block: DTSTART;VALUE=DATE is the     *)
(* start_date, DTEND;VALUE=DATE the end_date plus one day, also at the     *)
(* largest representable date and whatever end_time is.                    *)
(***************************************************************************)
C4_Case(e) ==
  /\ EmptyStartTime(e) /\ Passes(e)
  /\ ~BadZone(e) /\ ~NonDictRecurrence(e)

\* the day after a date, as YYYYMMDD (five digits of year after MAXYEAR)
C4_NextDay(r) ==
  IF IsMaxDate(r) THEN <<"1","0","0","0","0","0","1","0","1">>
  ELSE FormatDate(AddOneDay(r))

C4_AllDay ==
  [][Processing /\ C4_Case(events[idx]) =>
       /\ StepEmitted
       /\ NewBlock[3] = <<"DTSTART;VALUE=DATE:">> \o FormatDate(StartOf(events[idx]))
       /\ NewBlock[4] = <<"DTEND;VALUE=DATE:">> \o C4_NextDay(EndOf(events[idx]))]_vars

(***************************************************************************)
(* C5 as stated: with a start_time and no end_time, DTSTART and DTEND      *)
(* render the same timestamp, for every start_date and end_date that       *)
(* parses.                                                                 *)
(***************************************************************************)
C5_Case(e) == ~EmptyStartTime(e) /\ EmptyEndTime(e) /\ Renders(e)

C5_Original ==
  [][Processing /\ C5_Case(events[idx]) =>
       StepEmitted /\ LastN(NewBlock[3], 15) = LastN(NewBlock[4], 15)]_vars

(***************************************************************************)
(* C5 as amended: with a start_time and no end_time, DTEND carries the     *)
(* time of day of DTSTART on the end_date in force (start_date when        *)
(* end_date is absent or empty); the two timestamps are the same when that *)
(* is the day of start_date.                                               *)
(***************************************************************************)
C5_SameTimeOfDay ==
  [][Processing /\ C5_Case(events[idx]) =>
       /\ StepEmitted
       /\ LastN(NewBlock[3], 15) = FormatDateTime(StartOf(events[idx]))
       /\ LastN(NewBlock[3], 7) = LastN(NewBlock[4], 7)
       /\ SubSeq(LastN(NewBlock[4], 15), 1, 8)
            = FormatDate(ParseDate(EndDateText(events[idx])))
       /\ (FormatDate(ParseDate(EndDateText(events[idx])))
             = FormatDate(StartOf(events[idx]))
           => LastN(NewBlock[3], 15) = LastN(NewBlock[4], 15))]_vars

\* a timed event without end_time and with a later end_date was emitted
C5_Witness ==
  /\ idx = 2 /\ Len(events) = 1
  /\ C5_Case(events[1])
  /\ events[1].end_date = Text(D20250312sp)
  /\ Cardinality(BeginAt(ics_content)) = 1

(***************************************************************************)
(* C6  An emitted block holds exactly one RRULE line if and only if the    *)
(* recurrence has a frequency that is DAILY, WEEKLY or MONTHLY in any      *)
(* letter case; the line is FREQ=<upper case>;INTERVAL=<interval, 1 when   *)
(* absent>, then ;COUNT=<count> exactly when a count is present, with      *)
(* interval and count at least 1.                                          *)
(***************************************************************************)
C6_Recognized(e) ==
  /\ e.recurrence \notin {Absent, Null, EmptyDict}
  /\ e.recurrence.t = "dict"
  /\ IsText(e.recurrence.frequency)
  /\ Upper(e.recurrence.frequency.s) \in RecognizedFrequencies

C6_Interval(rec) == IF rec.interval = Absent THEN 1 ELSE rec.interval.n
C6_HasCount(rec) == rec.count \notin {Absent, Null}

C6_Line(rec) ==
  <<"RRULE:FREQ=">> \o Upper(rec.frequency.s)
  \o <<";INTERVAL=">> \o NatDigits(C6_Interval(rec))
  \o (IF C6_HasCount(rec) THEN <<";COUNT=">> \o NatDigits(rec.count.n) ELSE <<>>)

C6_RRuleAt(block) == {k \in 1..Len(block) : block[k][1] = "RRULE:FREQ="}

C6_Recurrence ==
  [][Processing /\ StepEmitted =>
       IF C6_Recognized(events[idx])
       THEN /\ Cardinality(C6_RRuleAt(NewBlock)) = 1
            /\ C6_Interval(events[idx].recurrence) >= 1
            /\ C6_HasCount(events[idx].recurrence)
                 => events[idx].recurrence.count.n >= 1
            /\ NewBlock[Len(NewBlock) - 1] = C6_Line(events[idx].recurrence)
       ELSE C6_RRuleAt(NewBlock) = {}]_vars

(***************************************************************************)
(* C7  Fatal errors leave no partial document: an argument that is neither *)
(* a list nor a dict with an "events" list, or an event that reaches       *)
(* timezone resolution with an identifier the database does not know,      *)
(* keeps generate_ics from finishing, and when it raises the file is as it *)
(* was before the call, also after earlier events were rendered.           *)
(***************************************************************************)
C7_ShapeOk(a) ==
  a.kind = "list" \/ (a.kind = "dict" /\ a.has_events /\ a.holds_list)

C7_NoPartialDocument ==
  /\ pc \in {"loop", "done"} => C7_ShapeOk(arg)
  /\ pc \in {"loop", "done"} =>
       \A k \in 1..(idx - 1) : ~(TextStart(events[k]) /\ BadZone(events[k]))
  /\ pc # "done" => file \in {NoFile, OldFile}
  /\ pc = "raised" /\ exc = "TypeError" => ~C7_ShapeOk(arg)
  /\ pc = "raised" /\ exc = "UnknownTimeZoneError" => BadZone(events[idx])

\* the run stopped on a timezone after a block was rendered; the old file
\* is still there
C7_Witness ==
  /\ pc = "raised" /\ exc = "UnknownTimeZoneError"
  /\ Cardinality(BeginAt(ics_content)) >= 1
  /\ file = OldFile

(***************************************************************************)
(* C8  The SUMMARY line of an emitted block, and the skip diagnostic,      *)
(* carry "Unnamed Event" when summary is absent or empty, and the summary  *)
(* as given otherwise.                                                     *)
(***************************************************************************)
C8_Expected(e) ==
  IF e.summary \in {Absent, Text(<<>>)} THEN UnnamedEvent ELSE Str(e.summary)

C8_SummaryDefault ==
  [][Processing =>
       /\ StepEmitted => NewBlock[2] = <<"SUMMARY:">> \o C8_Expected(events[idx])
       /\ StepSkipped =>
            stdout'[Len(stdout')] \in
              { <<"Skipping event '">> \o C8_Expected(events[idx])
                  \o <<"' due to missing start date.">>,
                <<"Skipping event '">> \o C8_Expected(events[idx])
                  \o <<"' due to invalid date format: ">> }]_vars

(***************************************************************************)
(* C9  A timed block carries, in DTSTART and in DTEND, TZID equal to the   *)
(* local zone's identifier when timezone is absent or "none" in any letter *)
(* case, and equal to the timezone as given otherwise; an all-day block    *)
(* carries no TZID.                                                        *)
(***************************************************************************)
C9_Tzid(e) == IF NoZone(e) THEN local_timezone ELSE e.timezone.s

C9_EffectiveTimezone ==
  [][Processing /\ StepEmitted =>
       IF EmptyStartTime(events[idx])
       THEN /\ NewBlock[3][1] = "DTSTART;VALUE=DATE:" /\ Len(NewBlock[3]) = 9
            /\ NewBlock[4][1] = "DTEND;VALUE=DATE:" /\ Len(NewBlock[4]) = 9
       ELSE /\ NewBlock[3] = <<"DTSTART;TZID=">> \o C9_Tzid(events[idx]) \o <<":">>
                               \o LastN(NewBlock[3], 15)
            /\ NewBlock[4] = <<"DTEND;TZID=">> \o C9_Tzid(events[idx]) \o <<":">>
                               \o LastN(NewBlock[4], 15)]_vars

\* a timed event with timezone "NONE" was emitted on a host in Europe/Rome
C9_Witness ==
  /\ idx = 2 /\ Len(events) = 1
  /\ events[1].timezone = Text(NoneUpper)
  /\ ~EmptyStartTime(events[1])
  /\ local_timezone = Rome
  /\ Cardinality(BeginAt(ics_content)) = 1

(***************************************************************************)
(* C10  Per event the missing-start-date check runs first, then timezone   *)
(* resolution, then parsing: start_date "none" with an unresolvable        *)
(* timezone is skipped, a start_date text with an unresolvable timezone    *)
(* stops the run, also when the event is all-day or its dates do not       *)
(* parse.                                                                  *)
(***************************************************************************)
C10_CheckOrder ==
  [][Processing /\ BadZone(events[idx]) =>
       /\ SentinelStart(events[idx]) => StepSkipped
       /\ TextStart(events[idx]) =>
            /\ pc' = "raised" /\ exc' = "UnknownTimeZoneError"
            /\ ics_content' = ics_content /\ stdout' = stdout]_vars

\* the run stopped on the timezone of an event whose dates do not parse
C10_Witness ==
  /\ pc = "raised" /\ exc = "UnknownTimeZoneError"
  /\ TextStart(events[idx]) /\ BadZone(events[idx])
  /\ ~Passes(events[idx])

====
